---- MODULE Spec2Model ----
(***************************************************************************)
(* State-machine model of static/js/samples.js: the camera viewer's        *)
(* transform engine (zoom and pan), filter compositor, letterbox mask      *)
(* overlay and camera start-up.                                            *)
(*                                                                         *)
(* Units.  A zoom value is held in tenths (scale = 10 is 1.0), which is    *)
(* what a range slider with step 0.1 can hold.  A translation is held in   *)
(* twentieths of a pixel, so that                                          *)
(*     maxTranslate = (videoSize * scale - containerSize) / 2              *)
(* is the integer  videoSize * scale10 - 10 * containerSize.  Pointer      *)
(* coordinates and element sizes are whole pixels.                         *)
(***************************************************************************)
EXTENDS Integers, Sequences, FiniteSets, TLC

VARIABLES
    \* ---- transform engine
    layout,          \* offsetWidth/offsetHeight of #video-container and #video
    scale,           \* let scale (tenths)
    translateX,      \* let translateX (1/20 px)
    translateY,      \* let translateY (1/20 px)
    isDragging,      \* let isDragging
    startX,          \* let startX (px)
    startY,          \* let startY (px)
    sliderValue,     \* zoomSlider.value (tenths)
    resetBtnDisplay, \* #reset-btn style.display
    styleTransform,  \* videoElement.style.transform, as <<tx, ty, scale>>
    \* ---- filter compositor
    currentFilter,   \* let currentFilter
    customFilters,   \* const customFilters
    filterSliders,   \* .value of the #hue, #brightness, #contrast, #saturation inputs
    styleFilter,     \* videoElement.style.filter ("" until first written)
    \* ---- letterbox mask
    barsMaskState,   \* const _barsMaskState
    maskUI,          \* #controls, #mask-btn, #mask-controls and #mask-radius
    overlayCount,    \* #mask-overlay canvases attached to the container
    observerCount,   \* ResizeObservers observing the container
    pendingResize,   \* a resize notification is queued for delivery
    rect,            \* the container's getBoundingClientRect(), in half pixels
    painted,         \* the rectangles filled on the overlay since it was last cleared
    stacking,        \* z-index of the video, the overlay and the container's other children
    \* ---- camera session
    mediaSupported,  \* navigator.mediaDevices.getUserMedia exists
    cam,             \* where each start-up coroutine stands
    gumRequests,     \* getUserMedia() calls issued so far
    srcObject,       \* videoElement.srcObject: the coroutine whose stream is bound
    videoMeta,       \* readyState >= 1 with videoWidth and videoHeight available
    errorLog,        \* console.error / console.warn messages, in order
    sized,           \* the last setCanvasToVideoSize() call and the canvas it left
    \* ---- page
    domReady,        \* the DOMContentLoaded listeners have run
    uncaught,        \* errors that left a handler uncaught
    \* ---- history
    lastOp,          \* the handler that ran last
    lastPan,         \* <<dx, dy>> in px when that handler panned, else <<0, 0>>
    plusRun,         \* consecutive changeZoom(+0.1) calls since the slider stood at 1.0
    prior,           \* the FilterState the reset that ran last started from
    cycles           \* completed enable/disable cycles of the mask, up to MaxCycles

viewVars == <<layout, scale, translateX, translateY, isDragging, startX, startY,
              sliderValue, resetBtnDisplay, styleTransform>>
filterVars == <<currentFilter, customFilters, filterSliders, styleFilter>>
maskVars == <<barsMaskState, maskUI, overlayCount, observerCount, pendingResize,
              rect, painted, stacking>>
cameraVars == <<mediaSupported, cam, gumRequests, srcObject, videoMeta, errorLog,
                sized>>
pageVars == <<domReady, uncaught>>
histVars == <<lastOp, lastPan, plusRun, prior, cycles>>

vars == <<viewVars, filterVars, maskVars, cameraVars, pageVars, histVars>>

(***************************************************************************)
(* Bounds of the model.                                                    *)
(***************************************************************************)
MaxPointer == 1      \* pointer coordinates range over 0..MaxPointer
MaxPlusRun == 42     \* longest run of "+" presses that is tracked
MaxCycles == 2       \* enable/disable cycles that are counted
MaxOverlays == 3     \* overlay canvases the container may hold at once

Pointer == 0..MaxPointer

\* Element geometries the page may have: the video is rendered smaller than,
\* or exactly as large as, its container, on each axis independently.
Layouts ==
    [containerWidth : {2}, containerHeight : {2},
     videoWidth : {1, 2}, videoHeight : {1, 2}]

(***************************************************************************)
(* Zoom slider attributes (changeZoom's fallbacks), in tenths.             *)
(***************************************************************************)
ZoomMin == 10
ZoomMax == 50

\* Slider positions the user drags the zoom slider to.
ZoomInputs == {10, 20}
\* changeZoom(delta) arguments, in thousandths: the +/- buttons' step ...
StepDeltas == {100, -100}
\* ... and coarse jumps.
CoarseDeltas == {1000, -1000}
\* ... and deltas beyond the slider's range or off its step.
FarDeltas == {-10000, 250, 10000}
\* Error of the floating-point sum value + delta, in thousandths.
FloatErr == {-1, 0, 1}

Max(a, b) == IF a >= b THEN a ELSE b
Min(a, b) == IF a <= b THEN a ELSE b

(***************************************************************************)
(* Transform engine.                                                       *)
(***************************************************************************)

\* maxTranslateX / maxTranslateY, in 1/20 px
MaxTranslate(videoSize, containerSize, s) == videoSize * s - 10 * containerSize

\* no clamp at all
ConstrainAxisNone(t, videoSize, containerSize, s) == t

\* Math.max(-maxTranslate, Math.min(maxTranslate, translate))
ConstrainAxis(t, videoSize, containerSize, s) ==
    LET m == MaxTranslate(videoSize, containerSize, s)
    IN  Max(-m, Min(m, t))

\* constrainMovement() followed by the write of style.transform
ApplyTransform(tx, ty, s) ==
    /\ translateX' = ConstrainAxis(tx, layout.videoWidth, layout.containerWidth, s)
    /\ translateY' = ConstrainAxis(ty, layout.videoHeight, layout.containerHeight, s)
    /\ styleTransform' = <<translateX', translateY', s>>

\* scale > 1.01, for a scale in tenths
Zoomed(s) == 10 * s > 101

\* the button shown whatever the scale
ResetBtnAlways(s) == "inline-block"

ResetBtnFor(s) == IF Zoomed(s) THEN "inline-block" ELSE "none"

\* adjustZoom(): scale = parseFloat(zoomSlider.value); applyTransform(); reset button
AdjustZoom(v) ==
    /\ scale' = v
    /\ ApplyTransform(translateX, translateY, v)
    /\ resetBtnDisplay' = ResetBtnFor(v)

\* the zoom slider's input event: the user drags it to v
SliderInput ==
    \E v \in ZoomInputs :
        /\ sliderValue' = v
        /\ AdjustZoom(v)
        /\ lastOp' = "adjustZoom"
        /\ lastPan' = <<0, 0>>
        /\ plusRun' = IF v = 10 THEN 0 ELSE -1
        /\ UNCHANGED <<layout, isDragging, startX, startY, domReady, uncaught, prior,
                       cycles, filterVars, maskVars, cameraVars>>

\* Math.floor in place of Math.round
RoundToStepFloor(raw) == raw \div 100

\* Math.round(newZoom * factor) / factor with factor = 10 for step = 0.1:
\* thousandths to tenths, halves rounded up
RoundToStep(raw) == (raw + 50) \div 100

\* the rounded sum with no clamp
NewZoomUnclamped(value, delta, err) == RoundToStep(value * 100 + delta + err)

\* changeZoom(delta): the new slider value
NewZoom(value, delta, err) ==
    Max(ZoomMin, Min(ZoomMax, RoundToStep(value * 100 + delta + err)))

\* changeZoom(delta).  The trailing `if (resetBtn)` reads an identifier that no
\* scope declares, so the call ends in a ReferenceError after the zoom is applied.
ChangeZoom(delta) ==
    \E err \in FloatErr :
        LET newZoom == NewZoom(sliderValue, delta, err) IN
        /\ sliderValue' = newZoom
        /\ AdjustZoom(newZoom)
        /\ uncaught' = uncaught \cup {"ReferenceError: resetBtn"}
        /\ lastOp' = "changeZoom"
        /\ lastPan' = <<0, 0>>
        /\ plusRun' = IF delta = 100 /\ plusRun >= 0 /\ plusRun < MaxPlusRun
                      THEN plusRun + 1
                      ELSE IF newZoom = 10 THEN 0 ELSE -1
        /\ UNCHANGED <<layout, isDragging, startX, startY, domReady, prior,
                       cycles, filterVars, maskVars, cameraVars>>

ChangeZoomStep == \E delta \in StepDeltas : ChangeZoom(delta)

ChangeZoomCoarse == \E delta \in CoarseDeltas : ChangeZoom(delta)

ChangeZoomFar == \E delta \in FarDeltas : ChangeZoom(delta)

\* changeZoom(-1)
ChangeZoomOut == ChangeZoom(-1000)

\* window.resetZoom(), defined by the second DOMContentLoaded listener
ResetZoom ==
    /\ domReady
    /\ scale' = 10
    /\ sliderValue' = 10
    /\ ApplyTransform(0, 0, 10)
    /\ resetBtnDisplay' = "none"
    /\ lastOp' = "resetZoom"
    /\ lastPan' = <<0, 0>>
    /\ plusRun' = 0
    /\ UNCHANGED <<layout, isDragging, startX, startY, domReady, uncaught, prior,
                       cycles, filterVars, maskVars, cameraVars>>

(***************************************************************************)
(* Drag panning.                                                           *)
(***************************************************************************)

\* mousedown / touchstart
BeginDrag(x, y, op) ==
    /\ isDragging' = TRUE
    /\ startX' = x
    /\ startY' = y
    /\ lastOp' = op
    /\ lastPan' = <<0, 0>>
    /\ UNCHANGED <<layout, scale, translateX, translateY, sliderValue,
                   resetBtnDisplay, styleTransform, domReady, uncaught, plusRun,
                   prior, cycles, filterVars, maskVars, cameraVars>>

\* mousemove / touchmove
DragMove(x, y, op) ==
    /\ lastOp' = op
    /\ IF isDragging
       THEN /\ ApplyTransform(translateX + 20 * (x - startX),
                              translateY + 20 * (y - startY), scale)
            /\ startX' = x
            /\ startY' = y
            /\ lastPan' = <<x - startX, y - startY>>
       ELSE /\ lastPan' = <<0, 0>>
            /\ UNCHANGED <<translateX, translateY, styleTransform, startX, startY>>
    /\ UNCHANGED <<layout, scale, isDragging, sliderValue, resetBtnDisplay,
                   domReady, uncaught, plusRun, prior, cycles, filterVars, maskVars,
                   cameraVars>>

\* mouseup / mouseleave / touchend
EndDrag(op) ==
    /\ isDragging' = FALSE
    /\ lastOp' = op
    /\ lastPan' = <<0, 0>>
    /\ UNCHANGED <<layout, scale, translateX, translateY, startX, startY,
                   sliderValue, resetBtnDisplay, styleTransform, domReady,
                   uncaught, plusRun, prior, cycles, filterVars, maskVars,
                   cameraVars>>

MouseDown == \E x \in Pointer, y \in Pointer : BeginDrag(x, y, "mousedown")
MouseMove == \E x \in Pointer, y \in Pointer : DragMove(x, y, "mousemove")
MouseUp == EndDrag("mouseup")
MouseLeave == EndDrag("mouseleave")
TouchStart == \E x \in Pointer, y \in Pointer : BeginDrag(x, y, "touchstart")
TouchMove == \E x \in Pointer, y \in Pointer : DragMove(x, y, "touchmove")
TouchEnd == EndDrag("touchend")

\* touchcancel, which the browser sends for a touch that is in progress: the
\* container has no listener for it, nothing runs
TouchCancel ==
    /\ lastOp \in {"touchstart", "touchmove"}
    /\ lastOp' = "touchcancel"
    /\ lastPan' = <<0, 0>>
    /\ UNCHANGED <<viewVars, filterVars, maskVars, cameraVars, pageVars, plusRun,
                   prior, cycles>>

(***************************************************************************)
(* Filter compositor.                                                      *)
(***************************************************************************)

\* the argument each predefined-filter function passes to applyFilter
PresetChain ==
    [protanopia |-> "url(#filter-protanopia)",
     deuteranopia |-> "url(#filter-deuteranopia)",
     tritanopia |-> "url(#filter-tritanopia)",
     grayscale |-> "grayscale(100%)",
     inverted |-> "invert(100%)",
     invertedGrayscale |-> "grayscale(100%) invert(100%)",
     blueOnYellow |-> "sepia(100%) hue-rotate(180deg) saturate(300%) brightness(50%)",
     neonOrange |-> "invert(100%) sepia(100%) saturate(500%) hue-rotate(330deg) brightness(50%) contrast(200%)",
     neonGreen |-> "invert(100%) sepia(100%) saturate(500%) hue-rotate(90deg) brightness(50%) contrast(200%)",
     yellowOnBlack |-> "invert(100%) brightness(80%) contrast(200%) sepia(100%) hue-rotate(60deg)",
     purpleOnBlack |-> "invert(100%) brightness(70%) contrast(200%) sepia(100%) hue-rotate(300deg)"]

PresetNames == DOMAIN PresetChain

\* resetFilterSliders' defaults, equal to the initial customFilters
DefaultCustom == [hue |-> 0, brightness |-> 100, contrast |-> 100, saturation |-> 100]

\* Values the user drags each custom-filter slider to.
CustomInputs ==
    [hue |-> {-30, 0, 90}, brightness |-> {50, 100}, contrast |-> {100, 150},
     saturation |-> {100, 200}]

RECURSIVE TrimStart(_)
TrimStart(str) ==
    IF Len(str) > 0 /\ SubSeq(str, 1, 1) = " "
    THEN TrimStart(SubSeq(str, 2, Len(str)))
    ELSE str

RECURSIVE TrimEnd(_)
TrimEnd(str) ==
    IF Len(str) > 0 /\ SubSeq(str, Len(str), Len(str)) = " "
    THEN TrimEnd(SubSeq(str, 1, Len(str) - 1))
    ELSE str

\* a preset replaces the custom part
FilterTemplatePresetOnly(filter, custom) ==
    IF filter # "none" THEN filter
    ELSE "hue-rotate(" \o ToString(custom.hue) \o "deg) brightness("
         \o ToString(custom.brightness) \o "%) contrast("
         \o ToString(custom.contrast) \o "%) saturate("
         \o ToString(custom.saturation) \o "%)"

\* `${predefinedFilter} ${adjustableFilter}`
FilterTemplate(filter, custom) ==
    LET predefinedFilter == IF filter # "none" THEN filter ELSE ""
        adjustableFilter ==
            "hue-rotate(" \o ToString(custom.hue) \o "deg) brightness("
            \o ToString(custom.brightness) \o "%) contrast("
            \o ToString(custom.contrast) \o "%) saturate("
            \o ToString(custom.saturation) \o "%)"
    IN  predefinedFilter \o " " \o adjustableFilter

\* the template written without trim()
CombinedFiltersUntrimmed(filter, custom) == FilterTemplate(filter, custom)

\* applyCombinedFilters(): the string written to style.filter
CombinedFilters(filter, custom) ==
    TrimEnd(TrimStart(FilterTemplate(filter, custom)))

\* the whole style attribute rewritten: the transform is lost
SetStyleFilterOnly(str) ==
    /\ styleFilter' = str
    /\ styleTransform' = <<0, 0, 10>>

\* videoElement.style.filter = str: the style's other properties stay
SetStyleFilter(str) ==
    /\ styleFilter' = str
    /\ styleTransform' = styleTransform

\* the view state the filter compositor never writes
viewData == <<layout, scale, translateX, translateY, isDragging, startX, startY,
              sliderValue, resetBtnDisplay>>

\* contrast read from the brightness slider
ReadSlidersLinked(sliders) ==
    [hue |-> sliders.hue, brightness |-> sliders.brightness,
     contrast |-> sliders.brightness, saturation |-> sliders.saturation]

\* applyCustomFilter(): customFilters takes the four sliders' values
ReadSliders(sliders) ==
    [hue |-> sliders.hue, brightness |-> sliders.brightness,
     contrast |-> sliders.contrast, saturation |-> sliders.saturation]

\* a custom-filter slider's input event: the user drags it to v
CustomInputOf(param) ==
    \E v \in CustomInputs[param] :
        /\ filterSliders' = [filterSliders EXCEPT ![param] = v]
        /\ customFilters' = ReadSliders(filterSliders')
        /\ SetStyleFilter(CombinedFilters(currentFilter, customFilters'))
        /\ lastOp' = "applyCustomFilter"
        /\ prior' = <<>>
        /\ UNCHANGED <<currentFilter, viewData, maskVars, cameraVars, pageVars,
                   lastPan, plusRun, cycles>>

CustomInput == \E param \in DOMAIN CustomInputs : CustomInputOf(param)

\* the #hue slider's input event
HueInput == CustomInputOf("hue")

\* a preset that also puts the custom sliders back to their defaults
ApplyFilterResetting(filter, op) ==
    /\ currentFilter' = filter
    /\ customFilters' = DefaultCustom
    /\ filterSliders' = DefaultCustom
    /\ SetStyleFilter(CombinedFilters(filter, customFilters'))
    /\ lastOp' = op
    /\ prior' = <<>>
    /\ UNCHANGED <<viewData, maskVars, cameraVars, pageVars, lastPan, plusRun, cycles>>

\* applyFilter(filter)
ApplyFilter(filter, op) ==
    /\ currentFilter' = filter
    /\ SetStyleFilter(CombinedFilters(filter, customFilters))
    /\ lastOp' = op
    /\ prior' = <<>>
    /\ UNCHANGED <<customFilters, filterSliders, viewData, maskVars, cameraVars, pageVars,
                   lastPan, plusRun, cycles>>

\* applyProtanopia() ... applyPurpleOnBlack()
ApplyPreset == \E name \in PresetNames : ApplyFilter(PresetChain[name], "applyFilter")

ApplyGrayscale == ApplyFilter(PresetChain.grayscale, "applyGrayscale")

\* only the hue slider put back
SlidersHueReset(sliders) == [sliders EXCEPT !.hue = DefaultCustom.hue]

\* the sliders left as they stand
SlidersKept(sliders) == sliders

\* resetFilterSliders(): the inputs' values after lines 312-315
SlidersAfterReset(sliders) ==
    [sliders EXCEPT !.hue = DefaultCustom.hue,
                    !.brightness = DefaultCustom.brightness,
                    !.contrast = DefaultCustom.contrast,
                    !.saturation = DefaultCustom.saturation]

\* resetFilterSliders(), with the four input events it dispatches: each runs
\* applyCustomFilter() synchronously, which reads the sliders back
ResetFilterSliders(filter) ==
    /\ filterSliders' = SlidersAfterReset(filterSliders)
    /\ customFilters' = ReadSliders(filterSliders')
    /\ SetStyleFilter(CombinedFilters(filter, customFilters'))

ResetCustom ==
    /\ ResetFilterSliders(currentFilter)
    /\ lastOp' = "resetFilterSliders"
    /\ prior' = <<currentFilter, customFilters>>
    /\ UNCHANGED <<currentFilter, viewData, maskVars, cameraVars, pageVars,
                   lastPan, plusRun, cycles>>

\* applyNormal(): applyFilter('none'); resetFilterSliders()
ApplyNormal ==
    /\ currentFilter' = "none"
    /\ ResetFilterSliders("none")
    /\ lastOp' = "applyNormal"
    /\ prior' = <<currentFilter, customFilters>>
    /\ UNCHANGED <<viewData, maskVars, cameraVars, pageVars,
                   lastPan, plusRun, cycles>>

(***************************************************************************)
(* Letterbox mask overlay.                                                 *)
(***************************************************************************)

\* _barsMaskState.canvas === null (a created canvas is at least 1 x 1)
NoCanvas == [width |-> 0, height |-> 0, css |-> <<>>]
\* typeof _barsMaskState.barPct !== 'number'
NoPct == -1

\* Container rectangles the layout may take, in half pixels.
RectSizes == [width : {1601}, height : {300, 801, 2000}]

\* e.target.value of an input event on #mask-radius; num = FALSE is a value
\* Number() turns into NaN
MaskInputs == [num : {TRUE}, n : {-5, 0, 10, 50, 60}] \cup {[num |-> FALSE, n |-> 0]}

\* the mask controls as the page's markup provides them, or not at all
MarkupUI ==
    [controls |-> TRUE, btn |-> TRUE, btnHooked |-> FALSE, pressed |-> FALSE,
     panel |-> TRUE, panelDisplay |-> "none", slider |-> TRUE, sliderValue |-> 10,
     sliderMax |-> 50, legacyWired |-> FALSE, wired |-> 0]
NoUI ==
    [controls |-> FALSE, btn |-> FALSE, btnHooked |-> FALSE, pressed |-> FALSE,
     panel |-> FALSE, panelDisplay |-> "none", slider |-> FALSE, sliderValue |-> 0,
     sliderMax |-> 0, legacyWired |-> FALSE, wired |-> 0]

\* Math.round of a length given in half pixels
RoundHalf(h2) == (h2 + 1) \div 2

\* Number(v) || 0
NumberOr0(v) == IF v.num THEN v.n ELSE 0

\* the percentage stored unclamped
ClampPctNone(p) == p

\* Math.max(0, Math.min(50, p))
ClampPct(p) == Max(0, Min(50, p))

\* drawBarsMask's conversion of the legacy pixel height:
\* Math.round((bh / Math.max(1, h)) * 100), clamped
LegacyPct(bh, h) == ClampPct((200 * bh + Max(1, h)) \div (2 * Max(1, h)))

\* Math.floor in place of Math.round
BarPixelsFloor(pct, h) == (pct * h) \div 100

\* Math.round((pct / 100) * h)
BarPixels(pct, h) == (2 * pct * h + 100) \div 200

\* the fillRect calls of drawBarsMask for a bar of barH pixels
Bars(w, h, barH) ==
    IF barH > 0
    THEN << [x |-> 0, y |-> 0, w |-> w, h |-> barH, fill |-> "rgba(0,0,0,1)"],
            [x |-> 0, y |-> h - barH, w |-> w, h |-> barH, fill |-> "rgba(0,0,0,1)"],
            [x |-> 0, y |-> barH - 1, w |-> w, h |-> 1, fill |-> "rgba(255,255,255,0.03)"],
            [x |-> 0, y |-> h - barH, w |-> w, h |-> 1, fill |-> "rgba(255,255,255,0.03)"] >>
    ELSE << >>

\* drawBarsMask(): the state and the overlay's pixels it leaves
DrawBarsMask(st, shown) ==
    IF st.canvas = NoCanvas
    THEN [st |-> st, painted |-> shown]
    ELSE LET pct == IF st.barPct # NoPct THEN st.barPct
                    ELSE LegacyPct(st.barHeight, st.canvas.height)
         IN  [st |-> [st EXCEPT !.barPct = pct],
              painted |-> Bars(st.canvas.width, st.canvas.height,
                               BarPixels(pct, st.canvas.height))]

\* a canvas's default buffer, whatever the rectangle
BufferForDefault(r) == [width |-> 300, height |-> 150]

\* the pixel buffer for a container rectangle
BufferFor(r) ==
    [width |-> Max(1, RoundHalf(r.width)), height |-> Max(1, RoundHalf(r.height))]

\* the `if (!canvas) return` guard left out: a canvas is made up
ResizeBarsMaskCanvasUnguarded(st, shown, r) ==
    [st |-> [st EXCEPT !.canvas = [width |-> BufferFor(r).width,
                                   height |-> BufferFor(r).height,
                                   css |-> <<r.width, r.height>>]],
     painted |-> << >>]

\* resizeBarsMaskCanvas(): assigning width/height clears the canvas
ResizeBarsMaskCanvas(st, shown, r) ==
    IF st.canvas = NoCanvas
    THEN [st |-> st, painted |-> shown]
    ELSE [st |-> [st EXCEPT !.canvas = [width |-> BufferFor(r).width,
                                        height |-> BufferFor(r).height,
                                        css |-> <<r.width, r.height>>]],
          painted |-> << >>]

\* _ensureMaskUIExists(): the missing controls are created; a created slider
\* shows barHeight within 0..500 and carries the pixel-height listener
EnsureMaskUI(ui, st) ==
    [ui EXCEPT !.controls = TRUE,
               !.btn = TRUE,
               !.btnHooked = TRUE,
               !.panel = TRUE,
               !.panelDisplay = IF ui.panel THEN ui.panelDisplay ELSE "flex",
               !.slider = TRUE,
               !.sliderMax = IF ui.slider THEN ui.sliderMax ELSE 500,
               !.sliderValue = IF ui.slider THEN ui.sliderValue
                               ELSE Max(0, Min(500, st.barHeight)),
               !.legacyWired = IF ui.slider THEN ui.legacyWired ELSE TRUE]

\* setupBarsMaskFeature(): the slider's range becomes 0..50, which pulls its value
\* into the range, and one more percentage listener is attached
SetupBarsMaskFeature(ui, st) ==
    LET u == EnsureMaskUI(ui, st)
    IN  [u EXCEPT !.sliderMax = 50,
                  !.sliderValue = Max(0, Min(50, u.sliderValue)),
                  !.wired = u.wired + 1]

\* The container's children besides the video and the overlay.
Siblings == {"controls", "mask-controls", "menu"}

\* A z-index: a number, auto, or none for an element that does not exist.
ZAuto == [kind |-> "auto", z |-> 0]
ZNone == [kind |-> "none", z |-> 0]
ZInt(n) == [kind |-> "int", z |-> n]
\* z-index values the stylesheet may give a child
ZChoices == {ZAuto, ZInt(-1), ZInt(1), ZInt(3)}

\* parseInt(style.zIndex, 10), NaN read as 0
ZVal(v) == IF v.kind = "int" THEN v.z ELSE 0

\* the container children _ensureMaskUIExists() appends: #controls with no
\* z-index, #mask-controls with z-index 600
EnsureStacking(st, ui) ==
    [st EXCEPT !.sibling =
        [s \in Siblings |->
            IF s = "controls" /\ ~ui.controls THEN ZAuto
            ELSE IF s = "mask-controls" /\ ~ui.panel THEN ZInt(600)
            ELSE st.sibling[s]]]

\* the maximum z-index among the children; ZNone (-Infinity) without any
MaxSiblingZ(st) ==
    LET present == {s \in Siblings : st.sibling[s] # ZNone}
    IN  IF present = {} THEN ZNone
        ELSE ZInt(CHOOSE m \in {ZVal(st.sibling[s]) : s \in present} :
                      \A s \in present : ZVal(st.sibling[s]) <= m)

\* the overlay's z-index
CanvasZ(maxZ) == IF maxZ = ZNone THEN 1 ELSE Max(1, maxZ.z - 1)

\* no child is promoted
PromotedNever(v, neededZ) == v

\* a child's z-index after the promotion loop
Promoted(v, neededZ) == IF ZVal(v) < neededZ THEN ZInt(neededZ) ELSE v

\* createBarsMaskCanvas(): video to z-index 0, the overlay to canvasZ, every
\* other child to at least canvasZ + 1
StackingAfterCreate(st) ==
    LET canvasZ == CanvasZ(MaxSiblingZ(st))
    IN  [video |-> ZInt(0),
         canvas |-> ZInt(canvasZ),
         sibling |-> [s \in Siblings |->
                         IF st.sibling[s] = ZNone THEN ZNone
                         ELSE Promoted(st.sibling[s], canvasZ + 1)]]

\* disconnect() forgotten: the subscription stays
ObserversAfterDisconnectLeak(n, st) == n

\* disableBarsMask's `if (resizeObserver) disconnect()`
ObserversAfterDisconnect(n, st) == IF st.resizeObserver THEN n - 1 ELSE n

\* createBarsMaskCanvas(): a canvas sized to the container is inserted and a
\* ResizeObserver starts observing, which queues its first notification
CreateBarsMaskCanvas(st, shown) ==
    IF st.canvas # NoCanvas
    THEN [st |-> st, painted |-> shown, created |-> FALSE]
    ELSE LET canvas == [width |-> BufferFor(rect).width,
                        height |-> BufferFor(rect).height,
                        css |-> << >>]
             d == DrawBarsMask([st EXCEPT !.canvas = canvas,
                                          !.resizeObserver = TRUE], << >>)
         IN  [st |-> d.st, painted |-> d.painted, created |-> TRUE]

\* enableBarsMask() from the disabled state
DoEnable ==
    LET ui == EnsureMaskUI(maskUI, barsMaskState)
        c == CreateBarsMaskCanvas(barsMaskState, painted)
        d == DrawBarsMask([c.st EXCEPT !.enabled = TRUE], c.painted)
    IN  /\ overlayCount < MaxOverlays
        /\ maskUI' = [ui EXCEPT !.panelDisplay = "flex", !.pressed = TRUE]
        /\ overlayCount' = IF c.created THEN overlayCount + 1 ELSE overlayCount
        /\ observerCount' = IF c.created THEN observerCount + 1 ELSE observerCount
        /\ pendingResize' = (c.created \/ pendingResize)
        /\ barsMaskState' = d.st
        /\ painted' = d.painted
        /\ stacking' = IF c.created
                       THEN StackingAfterCreate(EnsureStacking(stacking, maskUI))
                       ELSE EnsureStacking(stacking, maskUI)
        /\ UNCHANGED <<rect, cycles>>

\* the percentage dropped with the canvas
StateAfterDisableForgetting(st) ==
    [st EXCEPT !.canvas = NoCanvas, !.resizeObserver = FALSE, !.enabled = FALSE,
               !.barPct = NoPct]

\* disableBarsMask(): the fields of _barsMaskState it assigns
StateAfterDisable(st) ==
    [st EXCEPT !.canvas = NoCanvas, !.resizeObserver = FALSE, !.enabled = FALSE]

\* disableBarsMask() from the enabled state
DoDisable ==
    /\ overlayCount' = IF barsMaskState.canvas # NoCanvas
                       THEN overlayCount - 1 ELSE overlayCount
    /\ observerCount' = ObserversAfterDisconnect(observerCount, barsMaskState)
    /\ barsMaskState' = StateAfterDisable(barsMaskState)
    /\ painted' = << >>
    /\ maskUI' = [maskUI EXCEPT
                     !.panelDisplay = IF maskUI.panel THEN "none" ELSE @,
                     !.pressed = FALSE]
    /\ stacking' = [stacking EXCEPT !.canvas = ZNone]
    /\ cycles' = Min(cycles + 1, MaxCycles)
    /\ UNCHANGED <<rect, pendingResize>>

maskFrame == <<viewVars, filterVars, cameraVars, pageVars, lastPan, plusRun, prior>>

EnableBarsMask ==
    /\ lastOp' = "enableBarsMask"
    /\ IF barsMaskState.enabled THEN UNCHANGED <<maskVars, cycles>> ELSE DoEnable
    /\ UNCHANGED maskFrame

DisableBarsMask ==
    /\ lastOp' = "disableBarsMask"
    /\ IF barsMaskState.enabled THEN DoDisable ELSE UNCHANGED <<maskVars, cycles>>
    /\ UNCHANGED maskFrame

\* a click on #mask-btn once _ensureMaskUIExists has hooked it
ToggleBarsMask ==
    /\ maskUI.btnHooked
    /\ lastOp' = "toggleBarsMask"
    /\ IF barsMaskState.enabled THEN DoDisable ELSE DoEnable
    /\ UNCHANGED maskFrame

\* the pixel-height listener of a slider _ensureMaskUIExists created
LegacyInput(st, shown, v) ==
    DrawBarsMask([st EXCEPT !.barHeight = NumberOr0(v)], shown)

\* the percentage listener setupBarsMaskFeature attaches
PercentInput(st, shown, v) ==
    LET pct == ClampPct(NumberOr0(v))
        h == IF st.canvas # NoCanvas THEN st.canvas.height ELSE layout.videoHeight
    IN  DrawBarsMask([st EXCEPT !.barPct = pct, !.barHeight = BarPixels(pct, h)],
                     shown)

\* an input event on #mask-radius carrying value v: its listeners in the order
\* they were attached
MaskSliderInput ==
    \E v \in MaskInputs :
        LET a == IF maskUI.legacyWired
                 THEN LegacyInput(barsMaskState, painted, v)
                 ELSE [st |-> barsMaskState, painted |-> painted]
            b == IF maskUI.wired > 0
                 THEN PercentInput(a.st, a.painted, v)
                 ELSE a
        IN  /\ maskUI.slider
            /\ maskUI' = [maskUI EXCEPT !.sliderValue = NumberOr0(v)]
            /\ barsMaskState' = b.st
            /\ painted' = b.painted
            /\ lastOp' = "maskInput"
            /\ UNCHANGED <<overlayCount, observerCount, pendingResize, rect,
                           stacking, cycles, maskFrame>>

\* the container is laid out anew; an observer queues a notification
Relayout ==
    \E r \in RectSizes :
        /\ r # rect
        /\ rect' = r
        /\ pendingResize' = (pendingResize \/ observerCount > 0)
        /\ lastOp' = "relayout"
        /\ UNCHANGED <<barsMaskState, maskUI, overlayCount, observerCount,
                       painted, stacking, cycles, maskFrame>>

\* the ResizeObserver callback: resizeBarsMaskCanvas(); drawBarsMask()
ResizeCallback ==
    LET r == ResizeBarsMaskCanvas(barsMaskState, painted, rect)
        d == DrawBarsMask(r.st, r.painted)
    IN  /\ pendingResize
        /\ pendingResize' = FALSE
        /\ barsMaskState' = d.st
        /\ painted' = d.painted
        /\ lastOp' = "resizeCallback"
        /\ UNCHANGED <<maskUI, overlayCount, observerCount, rect, stacking,
                       cycles, maskFrame>>

(***************************************************************************)
(* Camera session.  Two coroutines call startCamera(): the async function  *)
(* run while the script loads ("iife") and the first DOMContentLoaded      *)
(* listener ("auto").  Each stands at                                      *)
(*   "idle"         not started                                            *)
(*   "unsupported"  returned at the missing-API guard                      *)
(*   "gum"          awaiting getUserMedia()                                *)
(*   "meta"         stream bound, awaiting loadedmetadata                  *)
(*   "done"         startCamera() resolved and the caller finished         *)
(*   "failed"       startCamera() rejected and the caller's catch ran      *)
(***************************************************************************)
Coroutines == {"iife", "auto"}

\* the caller has no catch: the rejection is left unhandled
WhenRejectedUnhandled(p) ==
    [pc |-> "failed",
     log |-> <<"startCamera: getUserMedia failed">>,
     uncaught |-> {"unhandled rejection: " \o p}]

\* startCamera's catch logs and rethrows; the caller's catch logs
WhenRejected(p) ==
    [pc |-> "failed",
     log |-> <<"startCamera: getUserMedia failed",
               IF p = "iife" THEN "Camera startup failed:"
               ELSE "Camera auto-start failed or was denied:">>,
     uncaught |-> {}]

\* the async function at script load, up to its first suspension
IifeStart(supported) ==
    IF supported
    THEN [pc |-> "gum", requests |-> 1, log |-> << >>]
    ELSE [pc |-> "unsupported", requests |-> 0,
          log |-> <<"getUserMedia is not supported in this browser">>]

\* the camera listener of DOMContentLoaded, up to its first suspension: with no
\* getUserMedia the call throws inside startCamera's try
AutoStart(supported) ==
    IF supported
    THEN [pc |-> "gum", requests |-> 1, log |-> << >>, uncaught |-> {}]
    ELSE [pc |-> "failed", requests |-> 0, log |-> WhenRejected("auto").log,
          uncaught |-> WhenRejected("auto").uncaught]

\* videoEl.videoWidth / videoHeight of a call: a negotiated size, or 0 while
\* no metadata is available
VideoPixelSizes == {0, 1, 3, 640, 1920}
\* the scale argument, in thousandths
ScaleFactors == {1, 250, 500, 1000, 1500}
\* the video's getBoundingClientRect(), in half pixels
VideoRect == [width |-> 1281, height |-> 721]

\* Math.floor in place of Math.round
RoundScaledDown(v, sc) == (v * sc) \div 1000

\* Math.round(v * scale) for a scale in thousandths
RoundScaled(v, sc) == (2 * v * sc + 1000) \div 2000

\* setCanvasToVideoSize(canvas, videoEl, scale): the canvas it leaves
CanvasToVideoSize(videoWidth, videoHeight, r, sc) ==
    LET videoPixelW == IF videoWidth # 0 THEN videoWidth ELSE RoundHalf(r.width)
        videoPixelH == IF videoHeight # 0 THEN videoHeight ELSE RoundHalf(r.height)
    IN  [width |-> Max(1, RoundScaled(videoPixelW, sc)),
         height |-> Max(1, RoundScaled(videoPixelH, sc)),
         cssWidth |-> videoPixelW,
         cssHeight |-> videoPixelH]

\* Resolutions getUserMedia may negotiate.
NegotiatedSizes == {<<640, 480>>, <<1280, 720>>, <<1920, 1080>>}

\* the sizing runs whatever the outcome of startCamera()
SizesOverlayAlways(pc) == TRUE

\* the callers' `await startCamera(...)` inside try: the statements after it,
\* the overlay sizing among them, run only once the call has resolved
SizesOverlay(pc) == pc = "done"

\* the callers' overlay sizing, setCanvasToVideoSize(overlay, video, 1.0), for
\* coroutines that have come to stand at pcs, with the video reporting vw x vh
StartupSizing(pcs, vw, vh) ==
    IF sized.overlay /\ \E pc \in pcs : SizesOverlay(pc)
    THEN [sized EXCEPT !.called = TRUE, !.videoWidth = vw, !.videoHeight = vh,
                       !.scale = 1000,
                       !.canvas = CanvasToVideoSize(vw, vh, VideoRect, 1000)]
    ELSE sized

\* the wait skipped: the promise resolves at once
AwaitMetaSkipped(ready) == "done"

\* startCamera's metadata promise: resolved at once when readyState >= 1 and
\* videoWidth and videoHeight are set, else parked on loadedmetadata
AwaitMeta(ready) == IF ready THEN "done" ELSE "meta"

cameraFrame == <<viewVars, filterVars, maskVars, domReady, lastPan, plusRun, prior,
                 cycles>>

\* getUserMedia() resolves for p: the stream is bound, which resets the element
\* to HAVE_NOTHING, and p waits for loadedmetadata
GumResolve ==
    \E p \in Coroutines :
        /\ cam[p] = "gum"
        /\ srcObject' = p
        /\ videoMeta' = FALSE
        /\ cam' = [cam EXCEPT ![p] = AwaitMeta(videoMeta')]
        /\ lastOp' = "gumResolve"
        /\ UNCHANGED <<mediaSupported, gumRequests, errorLog, uncaught, sized,
                       cameraFrame>>

\* getUserMedia() rejects for p (denied, or no usable device)
GumReject ==
    \E p \in Coroutines :
        /\ cam[p] = "gum"
        /\ cam' = [cam EXCEPT ![p] = WhenRejected(p).pc]
        /\ errorLog' = errorLog \o WhenRejected(p).log
        /\ uncaught' = uncaught \cup WhenRejected(p).uncaught
        /\ sized' = StartupSizing({cam'[p]}, 0, 0)
        /\ lastOp' = "gumReject"
        /\ UNCHANGED <<mediaSupported, gumRequests, srcObject, videoMeta,
                       cameraFrame>>

\* loadedmetadata fires for the bound stream: every waiting onMeta resolves and
\* its caller goes on to size the overlay canvas, if the page has one
LoadedMetadata ==
    /\ srcObject # "none"
    /\ ~videoMeta
    /\ videoMeta' = TRUE
    /\ cam' = [p \in Coroutines |-> IF cam[p] = "meta" THEN "done" ELSE cam[p]]
    /\ \E res \in NegotiatedSizes :
           sized' = StartupSizing({cam'[p] : p \in {q \in Coroutines : cam[q] = "meta"}},
                                  res[1], res[2])
    /\ lastOp' = "loadedmetadata"
    /\ UNCHANGED <<mediaSupported, gumRequests, srcObject, errorLog, uncaught,
                   cameraFrame>>

\* a call of setCanvasToVideoSize() on a canvas and the video
SetCanvasToVideoSize ==
    \E vw \in VideoPixelSizes, vh \in VideoPixelSizes, sc \in ScaleFactors :
        /\ sized' = [called |-> TRUE, videoWidth |-> vw, videoHeight |-> vh,
                     scale |-> sc, overlay |-> sized.overlay,
                     canvas |-> CanvasToVideoSize(vw, vh, VideoRect, sc)]
        /\ lastOp' = "setCanvasToVideoSize"
        /\ UNCHANGED <<mediaSupported, cam, gumRequests, srcObject, videoMeta,
                       errorLog, uncaught, cameraFrame>>

(***************************************************************************)
(* Page start-up.                                                          *)
(***************************************************************************)

\* The DOMContentLoaded listeners, in the order they were added: the camera
\* auto-start, updateResetButtonVisibility() with window.resetZoom defined, then
\* setupBarsMaskFeature()
DOMContentLoaded ==
    /\ ~domReady
    /\ domReady' = TRUE
    /\ cam' = [cam EXCEPT !["auto"] = AutoStart(mediaSupported).pc]
    /\ gumRequests' = gumRequests + AutoStart(mediaSupported).requests
    /\ errorLog' = errorLog \o AutoStart(mediaSupported).log
    /\ uncaught' = uncaught \cup AutoStart(mediaSupported).uncaught
    /\ resetBtnDisplay' = ResetBtnFor(sliderValue)
    /\ maskUI' = SetupBarsMaskFeature(maskUI, barsMaskState)
    /\ stacking' = EnsureStacking(stacking, maskUI)
    /\ sized' = StartupSizing({cam'["auto"]}, 0, 0)
    /\ lastOp' = "DOMContentLoaded"
    /\ lastPan' = <<0, 0>>
    /\ UNCHANGED <<layout, scale, translateX, translateY, isDragging, startX,
                   startY, sliderValue, styleTransform, plusRun,
                   prior, cycles, filterVars, barsMaskState, overlayCount,
                   observerCount, pendingResize, rect, painted,
                   mediaSupported, srcObject, videoMeta>>

Init ==
    /\ layout \in Layouts
    /\ scale = 10
    /\ translateX = 0
    /\ translateY = 0
    /\ isDragging = FALSE
    /\ startX = 0
    /\ startY = 0
    /\ sliderValue = 10
    /\ resetBtnDisplay = "none"
    /\ styleTransform = <<0, 0, 10>>
    /\ domReady = FALSE
    /\ uncaught = {}
    /\ lastOp = "load"
    /\ lastPan = <<0, 0>>
    /\ plusRun = 0
    /\ currentFilter = "none"
    /\ customFilters = DefaultCustom
    /\ filterSliders = DefaultCustom
    /\ styleFilter = ""
    /\ prior = <<>>
    /\ barsMaskState = [enabled |-> FALSE, canvas |-> NoCanvas, barHeight |-> 100,
                        barPct |-> NoPct, resizeObserver |-> FALSE]
    /\ maskUI \in {MarkupUI, NoUI}
    /\ overlayCount = 0
    /\ observerCount = 0
    /\ pendingResize = FALSE
    /\ rect \in RectSizes
    /\ painted = << >>
    /\ \E zc \in ZChoices, zp \in ZChoices, zm \in ZChoices :
           stacking = [video |-> ZAuto, canvas |-> ZNone,
                       sibling |-> [s \in Siblings |->
                           IF s = "controls"
                           THEN (IF maskUI.controls THEN zc ELSE ZNone)
                           ELSE IF s = "mask-controls"
                           THEN (IF maskUI.panel THEN zp ELSE ZNone)
                           ELSE zm]]
    /\ cycles = 0
    /\ mediaSupported \in BOOLEAN
    /\ cam = [p \in Coroutines |->
                 IF p = "iife" THEN IifeStart(mediaSupported).pc ELSE "idle"]
    /\ gumRequests = IifeStart(mediaSupported).requests
    /\ srcObject = "none"
    /\ videoMeta = FALSE
    /\ errorLog = IifeStart(mediaSupported).log
    /\ \E overlay \in BOOLEAN :
         sized = [called |-> FALSE, videoWidth |-> 0, videoHeight |-> 0, scale |-> 0,
                overlay |-> overlay,
                canvas |-> [width |-> 300, height |-> 150,
                            cssWidth |-> 0, cssHeight |-> 0]]

\* Start-up states with the inputs an engine does not read held fixed.
FixedLayout == layout = [containerWidth |-> 2, containerHeight |-> 2,
                         videoWidth |-> 2, videoHeight |-> 2]
FixedStacking == \A s \in Siblings : stacking.sibling[s] \in {ZAuto, ZNone}
FixedRect == rect = [width |-> 1601, height |-> 2000]
FixedMask == maskUI = MarkupUI /\ FixedRect /\ FixedStacking
\* the page has no #overlay-canvas
NoOverlay == ~sized.overlay

InitView == Init /\ FixedMask /\ NoOverlay /\ mediaSupported
InitFilter == Init /\ FixedLayout /\ FixedMask /\ NoOverlay /\ mediaSupported
InitMask == Init /\ FixedLayout /\ FixedStacking /\ NoOverlay /\ mediaSupported
InitLayer == Init /\ FixedLayout /\ FixedRect /\ NoOverlay /\ mediaSupported
InitPage == Init /\ FixedLayout /\ FixedMask /\ NoOverlay
InitCamera == Init /\ FixedLayout /\ FixedMask

(***************************************************************************)
(* Specifications.                                                         *)
(***************************************************************************)

\* pan, slider zoom, coarse button zoom and reset
NextView ==
    \/ DOMContentLoaded
    \/ MouseDown \/ MouseMove \/ MouseUp \/ MouseLeave
    \/ TouchStart \/ TouchMove \/ TouchEnd \/ TouchCancel
    \/ SliderInput \/ ChangeZoomCoarse \/ ResetZoom

SpecView == InitView /\ [][NextView]_vars

\* the +/- buttons stepping through the whole slider range
NextZoom ==
    \/ DOMContentLoaded
    \/ SliderInput \/ ChangeZoomStep \/ ChangeZoomFar \/ ResetZoom

SpecZoom == InitView /\ [][NextZoom]_vars

\* the filter buttons and the custom-filter sliders
NextFilter ==
    \/ DOMContentLoaded
    \/ ApplyPreset \/ ApplyNormal \/ CustomInput \/ ResetCustom

SpecFilter == InitFilter /\ [][NextFilter]_vars

\* the mask's toggle, slider and resize watch
NextMask ==
    \/ DOMContentLoaded
    \/ EnableBarsMask \/ DisableBarsMask \/ ToggleBarsMask
    \/ MaskSliderInput \/ Relayout \/ ResizeCallback

SpecMask == InitMask /\ [][NextMask]_vars

\* the transform engine and the filter compositor on the one video element
NextStyle ==
    \/ DOMContentLoaded
    \/ MouseDown \/ MouseMove
    \/ SliderInput \/ ChangeZoomOut \/ ResetZoom
    \/ ApplyGrayscale \/ HueInput \/ ResetCustom \/ ApplyNormal

SpecStyle == InitFilter /\ [][NextStyle]_vars

\* a dependent canvas sized to the video
NextCanvas ==
    \/ DOMContentLoaded
    \/ SetCanvasToVideoSize

SpecCanvas == InitFilter /\ [][NextCanvas]_vars

\* camera start-up on a page with or without an overlay canvas, beside the
\* zoom slider
NextCamera ==
    \/ DOMContentLoaded
    \/ GumResolve \/ GumReject \/ LoadedMetadata
    \/ SliderInput

SpecCamera == InitCamera /\ [][NextCamera]_vars

\* the mask's overlay among the container's children
NextLayer ==
    \/ DOMContentLoaded
    \/ EnableBarsMask \/ DisableBarsMask \/ ToggleBarsMask

SpecLayer == InitLayer /\ [][NextLayer]_vars

\* the whole page: camera start-up beside the drag, the zoom slider, a filter
\* button and the mask button
Next ==
    \/ DOMContentLoaded
    \/ GumResolve \/ GumReject \/ LoadedMetadata
    \/ SliderInput
    \/ MouseDown \/ MouseMove \/ MouseUp
    \/ ApplyGrayscale
    \/ ToggleBarsMask

Spec == InitPage /\ [][Next]_vars

(***************************************************************************)
(* Properties.                                                             *)
(***************************************************************************)

Abs(n) == IF n < 0 THEN -n ELSE n

Panned == lastOp \in {"mousemove", "touchmove"} /\ isDragging

MaxTranslateX == MaxTranslate(layout.videoWidth, layout.containerWidth, scale)
MaxTranslateY == MaxTranslate(layout.videoHeight, layout.containerHeight, scale)

\* the pan bound of the contract: |t| <= m, and t = 0 when m is negative
WithinPanBound(t, m) == IF m < 0 THEN t = 0 ELSE Abs(t) <= m

\* C1: after a drag move has panned, |translateX| and |translateY| are within
\* (videoSize * scale - containerSize) / 2, and a translation whose bound is
\* negative is 0.
C1_PanWithinBound ==
    Panned => /\ WithinPanBound(translateX, MaxTranslateX)
              /\ WithinPanBound(translateY, MaxTranslateY)

\* C2: when resetZoom() returns, scale = 1, translateX = 0 and translateY = 0.
C2_ResetYieldsIdentity ==
    lastOp = "resetZoom" => scale = 10 /\ translateX = 0 /\ translateY = 0

\* C3: n presses of "+" (changeZoom(0.1)) from slider value 1.0 leave the scale
\* at 1.0 + n * 0.1 clamped to the slider's maximum, with no drift.
C3_StepsMatchSetScale ==
    plusRun >= 0 => /\ scale = Min(ZoomMax, 10 + plusRun)
                    /\ sliderValue = scale

\* the run of "+" presses has passed the slider's maximum
C3_Witness == plusRun = 41 /\ scale = ZoomMax /\ lastOp = "changeZoom"

SizedToContainer ==
    /\ layout.videoWidth = layout.containerWidth
    /\ layout.videoHeight = layout.containerHeight

\* C9: at scale 1 with the video rendered at exactly the container's size, the
\* translation is 0 on both axes whatever has been panned.
C9_NoSlackNoPan ==
    scale = 10 /\ SizedToContainer => translateX = 0 /\ translateY = 0

\* a drag to the right at scale 1, sized to container, has just been clamped away
C9_Witness ==
    /\ scale = 10 /\ SizedToContainer
    /\ Panned /\ lastPan[1] > 0
    /\ translateX = 0

FilterOps ==
    {"applyFilter", "applyGrayscale", "applyCustomFilter", "resetFilterSliders",
     "applyNormal"}

\* "hue-rotate(Hdeg) brightness(B%) contrast(C%) saturate(S%)" of the customs
CustomExpression ==
    "hue-rotate(" \o ToString(customFilters.hue) \o "deg) brightness("
    \o ToString(customFilters.brightness) \o "%) contrast("
    \o ToString(customFilters.contrast) \o "%) saturate("
    \o ToString(customFilters.saturation) \o "%)"

\* C4: once rendered, the filter string is "<preset> hue-rotate(Hdeg)
\* brightness(B%) contrast(C%) saturate(S%)"; for grayscale at the default customs
\* it is the literal string of the contract, and for preset none it is the custom
\* part alone, with no leading space.
C4_FilterString ==
    /\ lastOp \in FilterOps => styleFilter # ""
    /\ styleFilter # "" =>
        /\ currentFilter # "none" =>
               styleFilter = currentFilter \o " " \o CustomExpression
        /\ currentFilter = "none" => styleFilter = CustomExpression
        /\ currentFilter = "grayscale(100%)" /\ customFilters = DefaultCustom =>
               styleFilter = "grayscale(100%) hue-rotate(0deg) brightness(100%) contrast(100%) saturate(100%)"
        /\ currentFilter = "none" /\ customFilters = DefaultCustom =>
               styleFilter = "hue-rotate(0deg) brightness(100%) contrast(100%) saturate(100%)"

\* preset none has been rendered over non-default customs
C4_Witness ==
    /\ lastOp = "applyCustomFilter"
    /\ currentFilter = "none"
    /\ customFilters.hue = 90
    /\ styleFilter = "hue-rotate(90deg) brightness(100%) contrast(100%) saturate(100%)"

\* C5: when applyNormal() returns, input events included, the preset is none and
\* the customs are hue 0, brightness, contrast and saturation 100.
C5_ResetToNormal ==
    lastOp = "applyNormal" =>
        /\ currentFilter = "none"
        /\ customFilters = DefaultCustom

\* applyNormal() has run from a preset with every custom off its default
C5_Witness ==
    /\ lastOp = "applyNormal"
    /\ prior # <<>>
    /\ prior[1] = PresetChain.neonGreen
    /\ prior[2].hue # 0 /\ prior[2].brightness # 100
    /\ prior[2].contrast # 100 /\ prior[2].saturation # 100
    /\ customFilters = DefaultCustom

\* C6: the mask holds exactly one resize subscription and one overlay canvas
\* while it is enabled and none while it is disabled, whatever sequence of
\* enable, disable and toggle calls led here.
C6_OneSubscription ==
    /\ barsMaskState.enabled => observerCount = 1 /\ overlayCount = 1
    /\ ~barsMaskState.enabled => observerCount = 0 /\ overlayCount = 0

\* the mask is enabled again after a completed enable/disable cycle
C6_Witness ==
    /\ barsMaskState.enabled
    /\ cycles >= 1
    /\ observerCount = 1
    /\ barsMaskState.resizeObserver

\* C7: whenever barPct is defined it lies in 0..50, whether the slider's
\* listener or the legacy pixel-height conversion stored it.
C7_BarPctInRange ==
    barsMaskState.barPct # NoPct =>
        barsMaskState.barPct >= 0 /\ barsMaskState.barPct <= 50

\* the percentage listener has just stored the clamp of a value above 50
C7_Witness ==
    /\ lastOp = "maskInput"
    /\ maskUI.wired > 0
    /\ maskUI.sliderValue = 60
    /\ barsMaskState.barPct = 50

CameraRejected == \E p \in Coroutines : cam[p] = "failed"

CameraSteps == {"gumResolve", "gumReject", "loadedmetadata"}

\* what an unhandled camera rejection would leave in `uncaught`
CameraUncaught == {"unhandled rejection: " \o p : p \in Coroutines}

\* the listeners the DOMContentLoaded handlers install are in place:
\* window.resetZoom, the mask button's click and the mask slider's input
ControlsInstalled ==
    domReady => /\ maskUI.btn /\ maskUI.btnHooked
                /\ maskUI.slider /\ maskUI.wired = 1

\* C8: a rejected camera acquisition is caught (no rejection is left
\* unhandled), the controls' listeners are installed all the same, and no step
\* of the camera start-up touches ViewState, FilterState or MaskState, so the
\* controls behave as they do after a successful acquisition.
C8_RejectionContained ==
    [][/\ CameraRejected' =>
              /\ uncaught' \cap CameraUncaught = {}
              /\ ControlsInstalled'
       /\ lastOp' \in CameraSteps =>
              UNCHANGED <<viewVars, filterVars, maskVars>>]_vars

\* with the camera rejected, the zoom, the pan, a filter and the mask have acted
C8_Witness ==
    /\ cam = [p \in Coroutines |-> "failed"]
    /\ scale = 20
    /\ translateX # 0
    /\ currentFilter = "grayscale(100%)"
    /\ barsMaskState.enabled

\* C10: at most one camera acquisition request is issued at page start-up, and
\* once a failure has been reported no acquisition request is outstanding.
C10_SingleAcquisition ==
    /\ gumRequests <= 1
    /\ CameraRejected => \A p \in Coroutines : cam[p] # "gum"

\* C11: startCamera() resolves only with the stream bound and the video's
\* intrinsic width and height available, also when two calls overlap on the
\* same element.
C11_ResolvesWithMetadata ==
    [][\A p \in Coroutines :
          cam[p] # "done" /\ cam'[p] = "done" =>
              srcObject' # "none" /\ videoMeta']_vars

\* both start-up calls have resolved on one loadedmetadata, the second
\* stream bound over the first
C11_Witness ==
    /\ cam = [p \in Coroutines |-> "done"]
    /\ gumRequests = 2
    /\ lastOp = "loadedmetadata"
    /\ videoMeta

\* the stack level the layout gives an element: auto counts as 0
Layer(v) == IF v.kind = "int" THEN v.z ELSE 0

TransformOps == {"mousemove", "touchmove", "adjustZoom", "changeZoom", "resetZoom"}

\* C13: pan, slider zoom, button zoom and reset leave style.filter and the
\* FilterState as they were; preset, custom-slider, slider-reset and
\* applyNormal leave style.transform and the ViewState as they were.
C13_IndependentProperties ==
    [][/\ lastOp' \in TransformOps => UNCHANGED filterVars
       /\ lastOp' \in FilterOps => UNCHANGED viewVars]_vars

\* a preset has been rendered over a zoomed and panned video
C13_Witness ==
    /\ lastOp = "applyGrayscale"
    /\ styleFilter # ""
    /\ scale = 20 /\ translateX # 0
    /\ styleTransform = <<translateX, translateY, scale>>

ScaleOps == {"adjustZoom", "changeZoom", "resetZoom"}

\* C15: when adjustZoom(), changeZoom() or resetZoom() has run, the reset
\* button is displayed exactly when scale > 1.01.
C15_ResetShownIffZoomed ==
    lastOp \in ScaleOps =>
        (resetBtnDisplay # "none" <=> 100 * scale > 1010)

\* the "-" button has brought the scale back to 1.0 and the button is hidden
C15_Witness ==
    /\ lastOp = "changeZoom"
    /\ scale = 10 /\ plusRun = 0 /\ domReady
    /\ resetBtnDisplay = "none"

EndEvents == {"mouseup", "mouseleave", "touchend", "touchcancel"}
MoveEvents == {"mousemove", "touchmove"}

\* C16: a move event that follows an up, leave, end or cancel event, with no
\* down event between them, leaves translateX and translateY as they were.
C16_MoveAfterEndIsInert ==
    [][(lastOp \in EndEvents /\ lastOp' \in MoveEvents) =>
           UNCHANGED <<translateX, translateY>>]_vars

\* barH is (pct / 100) * h rounded to the nearest integer, halves up
IsRounded(barH, pct, h) ==
    /\ 200 * barH <= 2 * pct * h + 100
    /\ 2 * pct * h + 100 < 200 * (barH + 1)

OpaqueBars == SelectSeq(painted, LAMBDA r : r.fill = "rgba(0,0,0,1)")

\* C17: the overlay shows what a redraw from the current barPct and canvas
\* height paints: with barH = round(barPct / 100 * height) > 0, exactly two
\* opaque bars of full width and height barH, at y = 0 and y = height - barH;
\* with barH = 0 nothing at all.
C17_BarsFromPercent ==
    barsMaskState.canvas # NoCanvas /\ barsMaskState.barPct # NoPct =>
        \E barH \in 0..barsMaskState.canvas.height :
            /\ IsRounded(barH, barsMaskState.barPct, barsMaskState.canvas.height)
            /\ barH > 0 =>
                   OpaqueBars =
                       << [x |-> 0, y |-> 0, w |-> barsMaskState.canvas.width,
                           h |-> barH, fill |-> "rgba(0,0,0,1)"],
                          [x |-> 0, y |-> barsMaskState.canvas.height - barH,
                           w |-> barsMaskState.canvas.width, h |-> barH,
                           fill |-> "rgba(0,0,0,1)"] >>
            /\ barH = 0 => painted = << >>

\* 50 percent of an odd height, redrawn after a resize: the half pixel rounds up
C17_Witness ==
    /\ lastOp = "resizeCallback"
    /\ barsMaskState.enabled
    /\ barsMaskState.barPct = 50
    /\ barsMaskState.canvas.height = 401
    /\ Len(OpaqueBars) = 2
    /\ OpaqueBars[2].y = 200 /\ OpaqueBars[2].h = 201

\* n is v * scale rounded to the nearest integer, halves up (scale in thousandths)
IsRoundedScaled(n, v, sc) ==
    /\ 2000 * n <= 2 * v * sc + 1000
    /\ 2 * v * sc + 1000 < 2000 * (n + 1)

Negotiated == sized.called /\ sized.videoWidth > 0 /\ sized.videoHeight > 0

\* C18 as stated: for a negotiated resolution the buffer is
\* round(width * scale) by round(height * scale) and the CSS size is the
\* negotiated width and height.
C18_BufferIsRounded ==
    Negotiated =>
        /\ IsRoundedScaled(sized.canvas.width, sized.videoWidth, sized.scale)
        /\ IsRoundedScaled(sized.canvas.height, sized.videoHeight, sized.scale)
        /\ sized.canvas.cssWidth = sized.videoWidth
        /\ sized.canvas.cssHeight = sized.videoHeight

\* C18: for a negotiated resolution the buffer is round(width * scale) by
\* round(height * scale), each raised to 1 when it rounds to 0, and the CSS size
\* is the negotiated width and height.
C18_BufferIsRoundedAtLeastOne ==
    Negotiated =>
        /\ \E n \in 0..(2 * sized.videoWidth) :
               /\ IsRoundedScaled(n, sized.videoWidth, sized.scale)
               /\ sized.canvas.width = Max(1, n)
        /\ \E n \in 0..(2 * sized.videoHeight) :
               /\ IsRoundedScaled(n, sized.videoHeight, sized.scale)
               /\ sized.canvas.height = Max(1, n)
        /\ sized.canvas.cssWidth = sized.videoWidth
        /\ sized.canvas.cssHeight = sized.videoHeight

\* scale 0.5 of a 3 x 1920 stream: 1.5 rounds up to 2
C18_Witness ==
    /\ Negotiated
    /\ sized.videoWidth = 3 /\ sized.videoHeight = 1920 /\ sized.scale = 500
    /\ sized.canvas.width = 2 /\ sized.canvas.height = 960
    /\ sized.canvas.cssWidth = 3

ViewMutations == MoveEvents \cup ScaleOps

\* C19: when a pan, adjustZoom(), changeZoom() or resetZoom() has run,
\* translateX and translateY are within the pan bound of the scale and the
\* geometry as they now are (0 where that bound is negative).
C19_ClampNeverStale ==
    lastOp \in ViewMutations =>
        /\ WithinPanBound(translateX, MaxTranslateX)
        /\ WithinPanBound(translateY, MaxTranslateY)

\* C20: the scale stays within the slider's bounds 1..5 and equals the value
\* the zoom slider holds, whatever slider inputs, changeZoom(delta) calls and
\* resets have run.
C20_ScaleWithinSlider ==
    /\ ZoomMin <= scale /\ scale <= ZoomMax
    /\ sliderValue = scale

\* a delta far beyond the range has been clamped to the maximum
C20_Witness ==
    /\ lastOp = "changeZoom"
    /\ plusRun = -1
    /\ scale = ZoomMax /\ sliderValue = ZoomMax
    /\ resetBtnDisplay = "inline-block"

\* C21: no changeZoom() call raises an error.
C21_ChangeZoomCompletes ==
    lastOp = "changeZoom" => "ReferenceError: resetBtn" \notin uncaught

\* C27: the start-up code has sized the overlay canvas only if a startCamera()
\* call has resolved, and then from the negotiated resolution; with every
\* acquisition rejected or pending no sizing has run.
C27_SizedAfterStart ==
    sized.called =>
        /\ \E p \in Coroutines : cam[p] = "done"
        /\ sized.videoWidth > 0 /\ sized.videoHeight > 0

\* one acquisition was rejected, the other resolved and sized the overlay
C27_Witness ==
    /\ sized.overlay /\ sized.called
    /\ cam["iife"] = "failed" /\ cam["auto"] = "done"
    /\ sized.canvas.width = 1920 /\ sized.canvas.cssHeight = 1080

MaskToggles == {"enableBarsMask", "disableBarsMask", "toggleBarsMask"}

\* the callback of a resize notification, run once more on the current state
Redelivered ==
    LET r == ResizeBarsMaskCanvas(barsMaskState, painted, rect)
    IN  DrawBarsMask(r.st, r.painted)

\* C22: when a resize notification has been handled with the mask enabled, the
\* overlay's buffer is the rounded container rectangle as it now is, the bars
\* are those of one redraw at that size, and delivering the notification once
\* more changes nothing.
C22_ResizeIdempotent ==
    lastOp = "resizeCallback" /\ barsMaskState.enabled =>
        /\ barsMaskState.canvas.width = Max(1, (rect.width + 1) \div 2)
        /\ barsMaskState.canvas.height = Max(1, (rect.height + 1) \div 2)
        /\ barsMaskState.canvas.css = <<rect.width, rect.height>>
        /\ \E barH \in 0..barsMaskState.canvas.height :
               /\ IsRounded(barH, barsMaskState.barPct, barsMaskState.canvas.height)
               /\ Len(OpaqueBars) = IF barH > 0 THEN 2 ELSE 0
               /\ \A i \in 1..Len(OpaqueBars) : OpaqueBars[i].h = barH
        /\ Redelivered.st = barsMaskState
        /\ Redelivered.painted = painted

\* a second layout change has been handled: the buffer follows the small
\* rectangle and the bars are 10 percent of it
C22_Witness ==
    /\ lastOp = "resizeCallback" /\ barsMaskState.enabled
    /\ rect.height = 300
    /\ barsMaskState.canvas.height = 150
    /\ barsMaskState.barPct = 10
    /\ Len(painted) = 4 /\ painted[1].h = 15

\* C23: once barPct has a value, enableBarsMask(), disableBarsMask() and
\* toggleBarsMask() leave it as it was.
C23_BarPctPersists ==
    [][(barsMaskState.barPct # NoPct /\ lastOp' \in MaskToggles) =>
           barsMaskState'.barPct = barsMaskState.barPct]_vars

\* the mask is back on after a full cycle with the percentage the user chose
C23_Witness ==
    /\ lastOp = "toggleBarsMask" /\ barsMaskState.enabled
    /\ cycles >= 1
    /\ barsMaskState.barPct = 50
    /\ maskUI.sliderValue = 50
    /\ painted # << >>

\* C28: a resize notification handled while the mask is disabled paints
\* nothing, creates no canvas and leaves the mask's state as it was.
C28_LateResizeInert ==
    [][(~barsMaskState.enabled /\ lastOp' = "resizeCallback") =>
           /\ UNCHANGED <<barsMaskState, overlayCount, observerCount, maskUI,
                          stacking>>
           /\ painted' = << >>
           /\ barsMaskState'.canvas = NoCanvas]_vars

\* the notification queued at enable was delivered after the disable
C28_Witness ==
    /\ lastOp = "resizeCallback"
    /\ ~barsMaskState.enabled
    /\ cycles >= 1
    /\ ~pendingResize
    /\ overlayCount = 0 /\ painted = << >>

\* C29: while the mask is enabled, the mask slider shows barPct.
C29_SliderShowsBarPct ==
    barsMaskState.enabled /\ maskUI.slider =>
        maskUI.sliderValue = barsMaskState.barPct

\* C24: when resetFilterSliders() has returned, the customs are hue 0 and
\* brightness, contrast, saturation 100, and each slider shows the value of
\* its parameter.
C24_ResetSyncsSliders ==
    lastOp = "resetFilterSliders" =>
        /\ customFilters.hue = 0 /\ customFilters.brightness = 100
        /\ customFilters.contrast = 100 /\ customFilters.saturation = 100
        /\ \A k \in DOMAIN filterSliders : filterSliders[k] = customFilters[k]

\* the reset ran under a preset with every custom off its default
C24_Witness ==
    /\ lastOp = "resetFilterSliders"
    /\ currentFilter = PresetChain.tritanopia
    /\ prior # <<>>
    /\ prior[2].hue = 90 /\ prior[2].brightness = 50
    /\ prior[2].contrast = 150 /\ prior[2].saturation = 200
    /\ filterSliders.hue = 0

StartsWith(str, prefix) ==
    Len(str) >= Len(prefix) /\ SubSeq(str, 1, Len(prefix)) = prefix
EndsWith(str, suffix) ==
    Len(str) >= Len(suffix)
    /\ SubSeq(str, Len(str) - Len(suffix) + 1, Len(str)) = suffix

\* C25: when a preset function, a custom slider's input, resetFilterSliders()
\* or applyNormal() has run, style.filter is the current preset's chain (nothing
\* for none) followed by the expression of the current four customs: the
\* custom part is there under every preset and nothing of it is stale.
C25_FilterNeverStale ==
    lastOp \in FilterOps =>
        /\ EndsWith(styleFilter, CustomExpression)
        /\ currentFilter # "none" =>
               /\ StartsWith(styleFilter, currentFilter \o " ")
               /\ Len(styleFilter) = Len(currentFilter) + 1 + Len(CustomExpression)
        /\ currentFilter = "none" => Len(styleFilter) = Len(CustomExpression)

\* a custom slider was moved under a preset: both parts are in the filter
C25_Witness ==
    /\ lastOp = "applyCustomFilter"
    /\ currentFilter = PresetChain.neonOrange
    /\ customFilters.brightness = 50 /\ customFilters.hue = -30
    /\ EndsWith(styleFilter, "brightness(50%) contrast(100%) saturate(100%)")

\* C26: a custom slider's input changes, in memory, only the parameter of the
\* slider that moved; the other three keep their values.
C26_OnlyNamedParameter ==
    [][lastOp' = "applyCustomFilter" =>
           \A k \in DOMAIN customFilters :
               filterSliders'[k] = filterSliders[k] =>
                   customFilters'[k] = customFilters[k]]_vars

\* all four parameters have been set, one slider at a time
C26_Witness ==
    /\ lastOp = "applyCustomFilter"
    /\ currentFilter = "none"
    /\ customFilters = [hue |-> 90, brightness |-> 50, contrast |-> 150,
                        saturation |-> 200]

====
